---- MODULE Spec2Model ----
(***************************************************************************)
(* Botan::TLS::Signature_Scheme (src/lib/tls/tls_signature_scheme.cpp):    *)
(* the registry of offered schemes, the descriptor functions over the      *)
(* 16-bit wire code, and the two policy predicates is_compatible_with and  *)
(* is_suitable_for.                                                        *)
(*                                                                         *)
(* Spec        one caller holding one Signature_Scheme object and calling  *)
(*             its member functions, one call at a time.                   *)
(* SpecThreads several threads calling all_available_schemes() and         *)
(*             is_available() concurrently; the function-local static is   *)
(*             initialized under the guard the language puts around it.    *)
(***************************************************************************)
EXTENDS Integers, Sequences, FiniteSets, TLC

VARIABLES
    m_code,        \* Signature_Scheme::m_code of the object under examination
    op,            \* the member function the caller is in ("none": between calls)
    arg,           \* its argument (a Protocol_Version, a Private_Key, or "none")
    ret,           \* its return value
    guard,         \* guard of the function-local static: "uninit", "initializing", "done"
    all_schemes,   \* storage of the function-local static vector all_schemes
    pc,            \* per thread: position inside all_available_schemes()/is_available()
    t_op,          \* per thread: the function it called
    t_code,        \* per thread: m_code of the object it called is_available() on
    t_ret,         \* per thread: what its last finished call returned
    n_init         \* number of times the initializer of all_schemes was started

vars == <<m_code, op, arg, ret, guard, all_schemes, pc, t_op, t_code, t_ret, n_init>>

seq_vars == <<m_code, op, arg, ret>>

reg_vars == <<guard, all_schemes, n_init>>

thread_vars == <<pc, t_op, t_code, t_ret>>

-----------------------------------------------------------------------------
(* Bounds of the model *)

\* wire codes 0 .. MaxWireCode are examined (all 17 recognized codes lie
\* between 0x0201 and 0x0808), together with the largest 16-bit code
MaxWireCode == 2060

\* key lengths within KeySlack bits of each band edge 250, 350, 450, 550
KeySlack == 1

\* number of threads of SpecThreads
NumThreads == 2

-----------------------------------------------------------------------------
(* Signature_Scheme::Code -- the TLS SignatureScheme registry values *)

NONE == 0

RSA_PKCS1_SHA1 == 513

RSA_PKCS1_SHA256 == 1025

RSA_PKCS1_SHA384 == 1281

RSA_PKCS1_SHA512 == 1537

DSA_SHA1 == 514

DSA_SHA256 == 1026

DSA_SHA384 == 1282

DSA_SHA512 == 1538

ECDSA_SHA1 == 515

ECDSA_SHA256 == 1027

ECDSA_SHA384 == 1283

ECDSA_SHA512 == 1539

RSA_PSS_SHA256 == 2052

RSA_PSS_SHA384 == 2053

RSA_PSS_SHA512 == 2054

EDDSA_25519 == 2055

EDDSA_448 == 2056

\* width of the wire code (uint16_t)
UINT16_MOD == 2^16

-----------------------------------------------------------------------------
(* Construction *)

\* Signature_Scheme(uint16_t wire_code) : m_code(Code(wire_code))
Signature_Scheme(wire_code) == wire_code % UINT16_MOD

\* the initializer list with the disabled Ed25519 entry compiled in
all_schemes_initializer_with_ed25519 ==
    << EDDSA_25519,
       RSA_PSS_SHA384, RSA_PSS_SHA256, RSA_PSS_SHA512,
       RSA_PKCS1_SHA384, RSA_PKCS1_SHA512, RSA_PKCS1_SHA256,
       ECDSA_SHA384, ECDSA_SHA512, ECDSA_SHA256 >>

\* the static vector's initializer list, in source order
all_schemes_initializer ==
    << RSA_PSS_SHA384, RSA_PSS_SHA256, RSA_PSS_SHA512,
       RSA_PKCS1_SHA384, RSA_PKCS1_SHA512, RSA_PKCS1_SHA256,
       ECDSA_SHA384, ECDSA_SHA512, ECDSA_SHA256 >>

\* value_exists(vec, val): std::find over the vector, by operator==
value_exists(vec, val) == \E i \in 1..Len(vec) : vec[i] = val

\* is_set()
is_set(code) == code /= NONE

-----------------------------------------------------------------------------
(* Descriptor functions: each is a switch over m_code *)

DigitChar(d) == SubSeq("0123456789", d + 1, d + 1)

\* std::to_string of a non-negative integer: its decimal digits
RECURSIVE std_to_string(_)
std_to_string(n) ==
    IF n < 10 THEN DigitChar(n)
    ELSE std_to_string(n \div 10) \o DigitChar(n % 10)

\* the fallback arm printing the code narrowed to one octet
to_string_low_octet(code) ==
    CASE code = RSA_PKCS1_SHA1   -> "RSA_PKCS1_SHA1"
      [] code = RSA_PKCS1_SHA256 -> "RSA_PKCS1_SHA256"
      [] code = RSA_PKCS1_SHA384 -> "RSA_PKCS1_SHA384"
      [] code = RSA_PKCS1_SHA512 -> "RSA_PKCS1_SHA512"
      [] code = ECDSA_SHA1       -> "ECDSA_SHA1"
      [] code = ECDSA_SHA256     -> "ECDSA_SHA256"
      [] code = ECDSA_SHA384     -> "ECDSA_SHA384"
      [] code = ECDSA_SHA512     -> "ECDSA_SHA512"
      [] code = RSA_PSS_SHA256   -> "RSA_PSS_SHA256"
      [] code = RSA_PSS_SHA384   -> "RSA_PSS_SHA384"
      [] code = RSA_PSS_SHA512   -> "RSA_PSS_SHA512"
      [] code = EDDSA_25519      -> "EDDSA_25519"
      [] code = EDDSA_448        -> "EDDSA_448"
      [] code = DSA_SHA1         -> "DSA_SHA1"
      [] code = DSA_SHA256       -> "DSA_SHA256"
      [] code = DSA_SHA384       -> "DSA_SHA384"
      [] code = DSA_SHA512       -> "DSA_SHA512"
      [] OTHER -> "Unknown signature scheme: " \o std_to_string(code % 256)

to_string(code) ==
    CASE code = RSA_PKCS1_SHA1   -> "RSA_PKCS1_SHA1"
      [] code = RSA_PKCS1_SHA256 -> "RSA_PKCS1_SHA256"
      [] code = RSA_PKCS1_SHA384 -> "RSA_PKCS1_SHA384"
      [] code = RSA_PKCS1_SHA512 -> "RSA_PKCS1_SHA512"
      [] code = ECDSA_SHA1       -> "ECDSA_SHA1"
      [] code = ECDSA_SHA256     -> "ECDSA_SHA256"
      [] code = ECDSA_SHA384     -> "ECDSA_SHA384"
      [] code = ECDSA_SHA512     -> "ECDSA_SHA512"
      [] code = RSA_PSS_SHA256   -> "RSA_PSS_SHA256"
      [] code = RSA_PSS_SHA384   -> "RSA_PSS_SHA384"
      [] code = RSA_PSS_SHA512   -> "RSA_PSS_SHA512"
      [] code = EDDSA_25519      -> "EDDSA_25519"
      [] code = EDDSA_448        -> "EDDSA_448"
      [] code = DSA_SHA1         -> "DSA_SHA1"
      [] code = DSA_SHA256       -> "DSA_SHA256"
      [] code = DSA_SHA384       -> "DSA_SHA384"
      [] code = DSA_SHA512       -> "DSA_SHA512"
      [] OTHER -> "Unknown signature scheme: " \o std_to_string(code)

hash_function_name(code) ==
    CASE code \in {RSA_PKCS1_SHA1, ECDSA_SHA1, DSA_SHA1} -> "SHA-1"
      [] code \in {ECDSA_SHA256, RSA_PKCS1_SHA256, RSA_PSS_SHA256, DSA_SHA256} -> "SHA-256"
      [] code \in {ECDSA_SHA384, RSA_PKCS1_SHA384, RSA_PSS_SHA384, DSA_SHA384} -> "SHA-384"
      [] code \in {ECDSA_SHA512, RSA_PKCS1_SHA512, RSA_PSS_SHA512, DSA_SHA512} -> "SHA-512"
      [] code \in {EDDSA_25519, EDDSA_448} -> "Pure"
      [] OTHER -> "Unknown hash function"

padding_string(code) ==
    CASE code = RSA_PKCS1_SHA1   -> "EMSA_PKCS1(SHA-1)"
      [] code = RSA_PKCS1_SHA256 -> "EMSA_PKCS1(SHA-256)"
      [] code = RSA_PKCS1_SHA384 -> "EMSA_PKCS1(SHA-384)"
      [] code = RSA_PKCS1_SHA512 -> "EMSA_PKCS1(SHA-512)"
      [] code = ECDSA_SHA1       -> "EMSA1(SHA-1)"
      [] code = ECDSA_SHA256     -> "EMSA1(SHA-256)"
      [] code = ECDSA_SHA384     -> "EMSA1(SHA-384)"
      [] code = ECDSA_SHA512     -> "EMSA1(SHA-512)"
      [] code = RSA_PSS_SHA256   -> "PSSR(SHA-256,MGF1,32)"
      [] code = RSA_PSS_SHA384   -> "PSSR(SHA-384,MGF1,48)"
      [] code = RSA_PSS_SHA512   -> "PSSR(SHA-512,MGF1,64)"
      [] code = EDDSA_25519      -> "Pure"
      [] code = EDDSA_448        -> "Pure"
      [] OTHER -> "Unknown padding"

algorithm_name(code) ==
    CASE code \in {RSA_PKCS1_SHA1, RSA_PKCS1_SHA256, RSA_PKCS1_SHA384, RSA_PKCS1_SHA512,
                   RSA_PSS_SHA256, RSA_PSS_SHA384, RSA_PSS_SHA512} -> "RSA"
      [] code \in {ECDSA_SHA1, ECDSA_SHA256, ECDSA_SHA384, ECDSA_SHA512} -> "ECDSA"
      [] code = EDDSA_25519 -> "Ed25519"
      [] code = EDDSA_448 -> "Ed448"
      [] code \in {DSA_SHA1, DSA_SHA256, DSA_SHA384, DSA_SHA512} -> "DSA"
      [] OTHER -> "Unknown algorithm"

-----------------------------------------------------------------------------
(* AlgorithmIdentifier and the named-curve encoding it carries *)

\* AlgorithmIdentifier(): no algorithm, no parameters
AlgorithmIdentifier_default == [oid |-> "", parameters |-> <<>>]

\* AlgorithmIdentifier(name, Encoding_Option): USE_NULL_PARAM stores the DER
\* NULL (05 00), USE_EMPTY_PARAM stores no parameter octets
AlgorithmIdentifier_option(name, option) ==
    [oid |-> name,
     parameters |-> IF option = "USE_NULL_PARAM" THEN <<5, 0>> ELSE <<>>]

\* AlgorithmIdentifier(name, parameter octets)
AlgorithmIdentifier_param(name, param) == [oid |-> name, parameters |-> param]

\* object identifier of a named group
EC_Group_oid(name) ==
    CASE name = "secp256r1" -> <<1, 2, 840, 10045, 3, 1, 7>>
      [] name = "secp384r1" -> <<1, 3, 132, 0, 34>>
      [] name = "secp521r1" -> <<1, 3, 132, 0, 35>>

\* the leading base-128 digits of n, each with the continuation bit set
RECURSIVE base128_high(_)
base128_high(n) ==
    IF n = 0 THEN <<>> ELSE base128_high(n \div 128) \o <<128 + (n % 128)>>

\* one OID component in base 128
base128(n) == base128_high(n \div 128) \o <<n % 128>>

RECURSIVE oid_tail(_, _)
oid_tail(oid, i) ==
    IF i > Len(oid) THEN <<>> ELSE base128(oid[i]) \o oid_tail(oid, i + 1)

\* DER OBJECT IDENTIFIER: tag 06, length, 40*c1+c2, then the other components
DER_encode_oid(oid) ==
    LET body == <<40 * oid[1] + oid[2]>> \o oid_tail(oid, 3)
    IN  <<6, Len(body)>> \o body

\* EC_Group(name).DER_encode(EC_Group_Encoding::NamedCurve)
EC_Group_DER_encode(name) == DER_encode_oid(EC_Group_oid(name))

\* the RSA arm listing the PKCS1 codes only
algorithm_identifier_pkcs1_only(code) ==
    CASE code = ECDSA_SHA256 -> AlgorithmIdentifier_param("ECDSA", EC_Group_DER_encode("secp256r1"))
      [] code = ECDSA_SHA384 -> AlgorithmIdentifier_param("ECDSA", EC_Group_DER_encode("secp384r1"))
      [] code = ECDSA_SHA512 -> AlgorithmIdentifier_param("ECDSA", EC_Group_DER_encode("secp521r1"))
      [] code = EDDSA_25519 -> AlgorithmIdentifier_option("Ed25519", "USE_EMPTY_PARAM")
      [] code \in {RSA_PKCS1_SHA1, RSA_PKCS1_SHA256, RSA_PKCS1_SHA384, RSA_PKCS1_SHA512}
            -> AlgorithmIdentifier_option("RSA", "USE_NULL_PARAM")
      [] OTHER -> AlgorithmIdentifier_default

algorithm_identifier(code) ==
    CASE code = ECDSA_SHA256 -> AlgorithmIdentifier_param("ECDSA", EC_Group_DER_encode("secp256r1"))
      [] code = ECDSA_SHA384 -> AlgorithmIdentifier_param("ECDSA", EC_Group_DER_encode("secp384r1"))
      [] code = ECDSA_SHA512 -> AlgorithmIdentifier_param("ECDSA", EC_Group_DER_encode("secp521r1"))
      [] code = EDDSA_25519 -> AlgorithmIdentifier_option("Ed25519", "USE_EMPTY_PARAM")
      [] code \in {RSA_PKCS1_SHA1, RSA_PKCS1_SHA256, RSA_PKCS1_SHA384, RSA_PKCS1_SHA512,
                   RSA_PSS_SHA256, RSA_PSS_SHA384, RSA_PSS_SHA512}
            -> AlgorithmIdentifier_option("RSA", "USE_NULL_PARAM")
      [] OTHER -> AlgorithmIdentifier_default

\* the DSA arm left out of the switch
format_without_dsa(code) ==
    CASE code \in {RSA_PKCS1_SHA1, RSA_PKCS1_SHA256, RSA_PKCS1_SHA384, RSA_PKCS1_SHA512,
                   RSA_PSS_SHA256, RSA_PSS_SHA384, RSA_PSS_SHA512} -> "IEEE_1363"
      [] code \in {ECDSA_SHA1, ECDSA_SHA256, ECDSA_SHA384, ECDSA_SHA512,
                   EDDSA_25519, EDDSA_448} -> "DER_SEQUENCE"
      [] OTHER -> "nullopt"

\* std::optional<Signature_Format>; "nullopt" is the empty optional
format(code) ==
    CASE code \in {RSA_PKCS1_SHA1, RSA_PKCS1_SHA256, RSA_PKCS1_SHA384, RSA_PKCS1_SHA512,
                   RSA_PSS_SHA256, RSA_PSS_SHA384, RSA_PSS_SHA512} -> "IEEE_1363"
      [] code \in {ECDSA_SHA1, ECDSA_SHA256, ECDSA_SHA384, ECDSA_SHA512,
                   EDDSA_25519, EDDSA_448,
                   DSA_SHA1, DSA_SHA256, DSA_SHA384, DSA_SHA512} -> "DER_SEQUENCE"
      [] OTHER -> "nullopt"

-----------------------------------------------------------------------------
(* Protocol_Version and Private_Key, as far as this file reads them *)

TLS_V12 == [major |-> 3, minor |-> 3]

TLS_V13 == [major |-> 3, minor |-> 4]

DTLS_V12 == [major |-> 254, minor |-> 253]

DTLS_V13 == [major |-> 254, minor |-> 252]

Protocol_Versions == {TLS_V12, TLS_V13, DTLS_V12, DTLS_V13}

is_datagram_protocol(v) == v.major > 250

\* Protocol_Version::is_pre_tls_13(): at most TLS 1.2, or at most DTLS 1.2
\* (DTLS minor versions count downwards)
is_pre_tls_13(v) ==
    IF is_datagram_protocol(v)
    THEN v.major * 256 + v.minor >= DTLS_V12.major * 256 + DTLS_V12.minor
    ELSE v.major * 256 + v.minor <= TLS_V12.major * 256 + TLS_V12.minor

\* Private_Key::algo_name() of the key types a handshake can hold
KeyAlgoNames == {"RSA", "ECDSA", "Ed25519", "Ed448", "DSA", "DH"}

\* Private_Key::key_length(): around every edge of the ECDSA bands, and an RSA size
KeyLengths ==
    {e + d : e \in {250, 350, 450, 550}, d \in (0 - KeySlack)..KeySlack} \cup {2048}

Private_Keys == [algo_name : KeyAlgoNames, key_length : KeyLengths]

-----------------------------------------------------------------------------
(* The two policy predicates *)

\* a weakening of the SHA-1 ban to TLS 1.3 only, as RFC 8446 alone would have it
is_compatible_with_sha1_tls13_only(code, protocol_version) ==
    IF hash_function_name(code) = "SHA-1" /\ ~is_pre_tls_13(protocol_version) THEN FALSE
    ELSE IF ~is_pre_tls_13(protocol_version)
            /\ (code = RSA_PKCS1_SHA1 \/ code = RSA_PKCS1_SHA256
                \/ code = RSA_PKCS1_SHA384 \/ code = RSA_PKCS1_SHA512)
         THEN FALSE
         ELSE TRUE

\* the version-gated rule left out
is_compatible_with_no_pkcs1_rule(code, protocol_version) ==
    IF hash_function_name(code) = "SHA-1" THEN FALSE ELSE TRUE

\* the TLS 1.3 rule applied to every RSA scheme instead of the PKCS1 ones
is_compatible_with_all_rsa(code, protocol_version) ==
    IF hash_function_name(code) = "SHA-1" THEN FALSE
    ELSE IF ~is_pre_tls_13(protocol_version) /\ algorithm_name(code) = "RSA" THEN FALSE
         ELSE TRUE

is_compatible_with(code, protocol_version) ==
    IF hash_function_name(code) = "SHA-1" THEN FALSE
    ELSE IF ~is_pre_tls_13(protocol_version)
            /\ (code = RSA_PKCS1_SHA1 \/ code = RSA_PKCS1_SHA256
                \/ code = RSA_PKCS1_SHA384 \/ code = RSA_PKCS1_SHA512)
         THEN FALSE
         ELSE TRUE

\* the floor compared with < instead of <=
is_suitable_for_floor_off_by_one(code, private_key) ==
    IF algorithm_name(code) /= private_key.algo_name THEN FALSE
    ELSE LET keylen == private_key.key_length
         IN  IF keylen < 250 THEN FALSE
             ELSE IF code = ECDSA_SHA256 /\ ~(keylen >= 250 /\ keylen <= 350) THEN FALSE
             ELSE IF code = ECDSA_SHA384 /\ ~(keylen >= 350 /\ keylen <= 450) THEN FALSE
             ELSE IF code = ECDSA_SHA512 /\ ~(keylen >= 450 /\ keylen <= 550) THEN FALSE
             ELSE TRUE

is_suitable_for(code, private_key) ==
    IF algorithm_name(code) /= private_key.algo_name THEN FALSE
    ELSE LET keylen == private_key.key_length
         IN  IF keylen <= 250 THEN FALSE
             ELSE IF code = ECDSA_SHA256 /\ ~(keylen >= 250 /\ keylen <= 350) THEN FALSE
             ELSE IF code = ECDSA_SHA384 /\ ~(keylen >= 350 /\ keylen <= 450) THEN FALSE
             ELSE IF code = ECDSA_SHA512 /\ ~(keylen >= 450 /\ keylen <= 550) THEN FALSE
             ELSE TRUE

-----------------------------------------------------------------------------
(* The registry: all_available_schemes() and is_available() *)

\* a search that starts one element late
is_available_skips_first(code, schemes) ==
    value_exists(SubSeq(schemes, 2, Len(schemes)), code)

\* is_available(): value_exists(all_available_schemes(), *this)
is_available(code, schemes) == value_exists(schemes, code)

\* a static without the guard's wait: a thread goes past the declaration as
\* soon as some thread has started the initialization
static_guard_open_no_wait(g) == g /= "uninit"

\* whether the guard of the function-local static lets a thread that reaches
\* the declaration go past it without initializing: only once the
\* initialization has completed; while another thread initializes, it waits
static_guard_open(g) == g = "done"

\* whether a thread reaching the declaration runs the initializer itself
static_guard_claim(g) == g = "uninit"

-----------------------------------------------------------------------------
(* Spec: one caller, one object, one call at a time *)

WireCodes == (0..MaxWireCode) \cup {UINT16_MOD - 1}

Threads == 1..NumThreads

Init ==
    /\ m_code \in {Signature_Scheme(w) : w \in WireCodes}
    /\ op = "none"
    /\ arg = "none"
    /\ ret = "none"
    /\ guard = "uninit"
    /\ all_schemes = <<>>
    /\ n_init = 0
    /\ pc = [t \in Threads |-> "idle"]
    /\ t_op = [t \in Threads |-> "none"]
    /\ t_code = [t \in Threads |-> NONE]
    /\ t_ret = [t \in Threads |-> "none"]

\* a call of a member function that reads m_code only
Returns(f, a, r) ==
    /\ op = "none"
    /\ op' = f
    /\ arg' = a
    /\ ret' = r
    /\ UNCHANGED <<m_code, reg_vars, thread_vars>>

Call_is_set == Returns("is_set", "none", is_set(m_code))

Call_to_string == Returns("to_string", "none", to_string(m_code))

Call_hash_function_name == Returns("hash_function_name", "none", hash_function_name(m_code))

Call_padding_string == Returns("padding_string", "none", padding_string(m_code))

Call_algorithm_name == Returns("algorithm_name", "none", algorithm_name(m_code))

Call_algorithm_identifier == Returns("algorithm_identifier", "none", algorithm_identifier(m_code))

Call_format == Returns("format", "none", format(m_code))

Call_is_compatible_with ==
    \E protocol_version \in Protocol_Versions :
        Returns("is_compatible_with", protocol_version,
                is_compatible_with(m_code, protocol_version))

Call_is_suitable_for ==
    \E private_key \in Private_Keys :
        Returns("is_suitable_for", private_key, is_suitable_for(m_code, private_key))

\* control passes the declaration of the static: the first call runs the
\* initializer, every later call finds the guard open
PassStatic ==
    IF static_guard_claim(guard)
    THEN /\ all_schemes' = all_schemes_initializer
         /\ guard' = "done"
         /\ n_init' = n_init + 1
    ELSE /\ static_guard_open(guard)
         /\ UNCHANGED reg_vars

Call_all_available_schemes ==
    /\ op = "none"
    /\ PassStatic
    /\ op' = "all_available_schemes"
    /\ arg' = "none"
    /\ ret' = all_schemes'
    /\ UNCHANGED <<m_code, thread_vars>>

Call_is_available ==
    /\ op = "none"
    /\ PassStatic
    /\ op' = "is_available"
    /\ arg' = "none"
    /\ ret' = is_available(m_code, all_schemes')
    /\ UNCHANGED <<m_code, thread_vars>>

\* the caller takes the result and is ready for its next call
Return ==
    /\ op /= "none"
    /\ op' = "none"
    /\ arg' = "none"
    /\ ret' = "none"
    /\ UNCHANGED <<m_code, reg_vars, thread_vars>>

Next ==
    \/ Call_is_set
    \/ Call_to_string
    \/ Call_hash_function_name
    \/ Call_padding_string
    \/ Call_algorithm_name
    \/ Call_algorithm_identifier
    \/ Call_format
    \/ Call_is_compatible_with
    \/ Call_is_suitable_for
    \/ Call_all_available_schemes
    \/ Call_is_available
    \/ Return

Spec == Init /\ [][Next]_vars

-----------------------------------------------------------------------------
(* SpecThreads: threads racing through the declaration of the static *)

\* objects the threads call is_available() on: an offered scheme, a
\* classified scheme that is not offered, and an unset one
ThreadCodes == {ECDSA_SHA256, EDDSA_25519, NONE}

InitThreads ==
    /\ m_code = NONE
    /\ op = "none"
    /\ arg = "none"
    /\ ret = "none"
    /\ guard = "uninit"
    /\ all_schemes = <<>>
    /\ n_init = 0
    /\ pc = [t \in Threads |-> "idle"]
    /\ t_op = [t \in Threads |-> "none"]
    /\ t_code = [t \in Threads |-> NONE]
    /\ t_ret = [t \in Threads |-> "none"]

\* thread t enters all_available_schemes(), directly or from is_available()
T_Call(t) ==
    /\ pc[t] = "idle"
    /\ \E f \in {"all_available_schemes", "is_available"} :
         \E code \in (IF f = "is_available" THEN ThreadCodes ELSE {NONE}) :
            /\ t_op' = [t_op EXCEPT ![t] = f]
            /\ t_code' = [t_code EXCEPT ![t] = code]
    /\ pc' = [pc EXCEPT ![t] = "at_static"]
    /\ t_ret' = [t_ret EXCEPT ![t] = "none"]
    /\ UNCHANGED <<seq_vars, reg_vars>>

\* t finds the static uninitialized and takes the guard
T_BeginInit(t) ==
    /\ pc[t] = "at_static"
    /\ static_guard_claim(guard)
    /\ guard' = "initializing"
    /\ n_init' = n_init + 1
    /\ all_schemes' = <<>>
    /\ pc' = [pc EXCEPT ![t] = "constructing"]
    /\ UNCHANGED <<seq_vars, t_op, t_code, t_ret>>

\* the vector's constructor copies the next element of the initializer list
T_Construct(t) ==
    /\ pc[t] = "constructing"
    /\ Len(all_schemes) < Len(all_schemes_initializer)
    /\ all_schemes' = Append(all_schemes, all_schemes_initializer[Len(all_schemes) + 1])
    /\ UNCHANGED <<seq_vars, guard, n_init, thread_vars>>

\* the constructor has returned: t releases the guard and holds the reference
T_EndInit(t) ==
    /\ pc[t] = "constructing"
    /\ Len(all_schemes) = Len(all_schemes_initializer)
    /\ guard' = "done"
    /\ pc' = [pc EXCEPT ![t] = "has_ref"]
    /\ UNCHANGED <<seq_vars, all_schemes, n_init, t_op, t_code, t_ret>>

\* t goes past the declaration without initializing
T_PassStatic(t) ==
    /\ pc[t] = "at_static"
    /\ ~static_guard_claim(guard)
    /\ static_guard_open(guard)
    /\ pc' = [pc EXCEPT ![t] = "has_ref"]
    /\ UNCHANGED <<seq_vars, reg_vars, t_op, t_code, t_ret>>

\* t reads the vector through the reference: the caller of
\* all_available_schemes() sees its elements, is_available() searches it
T_Read(t) ==
    /\ pc[t] = "has_ref"
    /\ t_ret' = [t_ret EXCEPT ![t] =
                   IF t_op[t] = "is_available"
                   THEN is_available(t_code[t], all_schemes)
                   ELSE all_schemes]
    /\ pc' = [pc EXCEPT ![t] = "returned"]
    /\ UNCHANGED <<seq_vars, reg_vars, t_op, t_code>>

T_Return(t) ==
    /\ pc[t] = "returned"
    /\ pc' = [pc EXCEPT ![t] = "idle"]
    /\ UNCHANGED <<seq_vars, reg_vars, t_op, t_code, t_ret>>

NextThreads ==
    \E t \in Threads :
        \/ T_Call(t)
        \/ T_BeginInit(t)
        \/ T_Construct(t)
        \/ T_EndInit(t)
        \/ T_PassStatic(t)
        \/ T_Read(t)
        \/ T_Return(t)

SpecThreads == InitThreads /\ [][NextThreads]_vars

-----------------------------------------------------------------------------
(* Vocabulary of the properties *)

RSA_PKCS1_Codes == {RSA_PKCS1_SHA1, RSA_PKCS1_SHA256, RSA_PKCS1_SHA384, RSA_PKCS1_SHA512}

RSA_PSS_Codes == {RSA_PSS_SHA256, RSA_PSS_SHA384, RSA_PSS_SHA512}

ECDSA_Codes == {ECDSA_SHA1, ECDSA_SHA256, ECDSA_SHA384, ECDSA_SHA512}

DSA_Codes == {DSA_SHA1, DSA_SHA256, DSA_SHA384, DSA_SHA512}

SHA1_Codes == {RSA_PKCS1_SHA1, ECDSA_SHA1, DSA_SHA1}

RecognizedCodes ==
    RSA_PKCS1_Codes \cup RSA_PSS_Codes \cup ECDSA_Codes \cup DSA_Codes
        \cup {EDDSA_25519, EDDSA_448}

UnknownPrefix == "Unknown signature scheme: "

\* whether a name returned by to_string() is the fallback for unknown codes
IsFallbackName(name) ==
    /\ Len(name) >= Len(UnknownPrefix)
    /\ SubSeq(name, 1, Len(UnknownPrefix)) = UnknownPrefix

DecimalDigits == <<"0", "1", "2", "3", "4", "5", "6", "7", "8", "9">>

IsDecimal(str) ==
    /\ Len(str) >= 1
    /\ \A i \in 1..Len(str) : \E d \in 1..10 : SubSeq(str, i, i) = DecimalDigits[d]
    /\ Len(str) > 1 => SubSeq(str, 1, 1) /= "0"

\* the number a string of decimal digits denotes
RECURSIVE DecimalValue(_)
DecimalValue(str) ==
    IF Len(str) = 0 THEN 0
    ELSE LET last == SubSeq(str, Len(str), Len(str))
             d == CHOOSE k \in 1..10 : DecimalDigits[k] = last
         IN  10 * DecimalValue(SubSeq(str, 1, Len(str) - 1)) + (d - 1)

\* the elements of a sequence
Range(s) == {s[i] : i \in 1..Len(s)}

-----------------------------------------------------------------------------
(* C1 *)

\* C1: the codes whose hash_function_name() is "SHA-1" are exactly
\* RSA_PKCS1_SHA1, ECDSA_SHA1 and DSA_SHA1, and is_compatible_with(v) returns
\* false for each of them whatever the protocol version v is.
C1_Sha1NeverCompatible ==
    /\ (op = "hash_function_name" => ((ret = "SHA-1") <=> (m_code \in SHA1_Codes)))
    /\ (op = "is_compatible_with" /\ m_code \in SHA1_Codes => ret = FALSE)

C1_Witness ==
    /\ op = "is_compatible_with"
    /\ m_code = ECDSA_SHA1
    /\ arg = TLS_V12
    /\ ret = FALSE

-----------------------------------------------------------------------------
(* C2 *)

\* C2 as stated: each of the four RSA-PKCS1 codes, RSA_PKCS1_SHA1 included, is
\* compatible with TLS 1.2 and incompatible with TLS 1.3.
C2_AllFourPkcs1CompatibleWithTls12 ==
    op = "is_compatible_with" /\ m_code \in RSA_PKCS1_Codes =>
        /\ (arg = TLS_V12 => ret = TRUE)
        /\ (arg = TLS_V13 => ret = FALSE)

\* C2 amended: RSA_PKCS1_SHA256, RSA_PKCS1_SHA384 and RSA_PKCS1_SHA512 are
\* compatible with TLS 1.2 and incompatible with TLS 1.3; RSA_PKCS1_SHA1 is
\* incompatible with both, because its hash is SHA-1.
C2_Pkcs1Compatibility ==
    op = "is_compatible_with" /\ m_code \in RSA_PKCS1_Codes =>
        /\ (arg = TLS_V12 => ret = (m_code /= RSA_PKCS1_SHA1))
        /\ (arg = TLS_V13 => ret = FALSE)

C2_Witness ==
    /\ op = "is_compatible_with"
    /\ m_code = RSA_PKCS1_SHA256
    /\ arg = TLS_V13
    /\ ret = FALSE

-----------------------------------------------------------------------------
(* C3 *)

\* C3: is_compatible_with(v) returns true for every version v and every code
\* that neither has hash "SHA-1" nor is an RSA-PKCS1 code: the RSA-PSS codes
\* under TLS 1.2 and TLS 1.3, and every unrecognized code, NONE included.
C3_OtherwiseCompatible ==
    op = "is_compatible_with" /\ m_code \notin (SHA1_Codes \cup RSA_PKCS1_Codes) =>
        ret = TRUE

C3_Witness ==
    /\ op = "is_compatible_with"
    /\ m_code = RSA_PSS_SHA384
    /\ arg = TLS_V13
    /\ ret = TRUE

-----------------------------------------------------------------------------
(* C4 *)

\* the key-algorithm family each recognized code belongs to
FamilyOf(code) ==
    CASE code \in RSA_PKCS1_Codes \cup RSA_PSS_Codes -> "RSA"
      [] code \in ECDSA_Codes -> "ECDSA"
      [] code \in DSA_Codes -> "DSA"
      [] code = EDDSA_25519 -> "Ed25519"
      [] code = EDDSA_448 -> "Ed448"
      [] OTHER -> "Unknown algorithm"

\* C4: is_suitable_for(key) returns true exactly when the scheme's algorithm
\* name is the key's, the key is longer than 250 bits and, for ECDSA_SHA256 /
\* ECDSA_SHA384 / ECDSA_SHA512, the key length lies in [250,350] / [350,450] /
\* [450,550]; every other scheme is bounded by the floor only. ECDSA_SHA256
\* with an ECDSA key is unsuitable at 250 bits, suitable at 251 and 350,
\* unsuitable at 351.
C4_SuitableExactlyWhen ==
    op = "is_suitable_for" =>
        /\ ret = ( /\ FamilyOf(m_code) = arg.algo_name
                   /\ arg.key_length > 250
                   /\ (m_code = ECDSA_SHA256 => arg.key_length \in 250..350)
                   /\ (m_code = ECDSA_SHA384 => arg.key_length \in 350..450)
                   /\ (m_code = ECDSA_SHA512 => arg.key_length \in 450..550) )
        /\ (m_code = ECDSA_SHA256 /\ arg.algo_name = "ECDSA" =>
              /\ (arg.key_length = 250 => ret = FALSE)
              /\ (arg.key_length = 251 => ret = TRUE)
              /\ (arg.key_length = 350 => ret = TRUE)
              /\ (arg.key_length = 351 => ret = FALSE))

C4_Witness ==
    /\ op = "is_suitable_for"
    /\ m_code = ECDSA_SHA256
    /\ arg = [algo_name |-> "ECDSA", key_length |-> 350]
    /\ ret = TRUE

-----------------------------------------------------------------------------
(* C5 *)

\* C5: the sequence all_available_schemes() returns lists every RSA-PSS scheme
\* before every RSA-PKCS1 scheme and every RSA-PKCS1 scheme before every ECDSA
\* scheme, and holds no SHA-1 scheme, not EDDSA_25519 and not EDDSA_448.
C5_RegistryOrderAndExclusions ==
    op = "all_available_schemes" =>
        /\ \A i, j \in 1..Len(ret) :
              /\ (ret[i] \in RSA_PSS_Codes /\ ret[j] \in RSA_PKCS1_Codes => i < j)
              /\ (ret[i] \in RSA_PKCS1_Codes /\ ret[j] \in ECDSA_Codes => i < j)
              /\ (ret[i] \in RSA_PSS_Codes /\ ret[j] \in ECDSA_Codes => i < j)
        /\ \A i \in 1..Len(ret) :
              /\ ret[i] \notin SHA1_Codes
              /\ ret[i] \notin {EDDSA_25519, EDDSA_448}

C5_Witness ==
    /\ op = "all_available_schemes"
    /\ Len(ret) = 9
    /\ RSA_PSS_Codes \subseteq Range(ret)
    /\ (RSA_PKCS1_Codes \ {RSA_PKCS1_SHA1}) \subseteq Range(ret)
    /\ (ECDSA_Codes \ {ECDSA_SHA1}) \subseteq Range(ret)

-----------------------------------------------------------------------------
(* C6 *)

\* C6: is_available() of the scheme built from a code is true if and only if
\* the code is that of an element of all_available_schemes(); and to_string()
\* of every scheme in that registry is a canonical name, not the
\* "Unknown signature scheme: <code>" fallback.
C6_AvailableIffRegistered ==
    /\ (op = "is_available" =>
          /\ guard = "done"
          /\ ret = (m_code \in Range(all_schemes)))
    /\ (op = "to_string" /\ guard = "done" /\ m_code \in Range(all_schemes) =>
          ~IsFallbackName(ret))

C6_Witness ==
    /\ op = "is_available"
    /\ m_code = RSA_PSS_SHA384
    /\ ret = TRUE

-----------------------------------------------------------------------------
(* C7 *)

\* DER of the named curves: OBJECT IDENTIFIER 1.2.840.10045.3.1.7 (secp256r1),
\* 1.3.132.0.34 (secp384r1), 1.3.132.0.35 (secp521r1)
Secp256r1_DER == <<6, 8, 42, 134, 72, 206, 61, 3, 1, 7>>

Secp384r1_DER == <<6, 5, 43, 129, 4, 0, 34>>

Secp521r1_DER == <<6, 5, 43, 129, 4, 0, 35>>

\* DER NULL
Null_DER == <<5, 0>>

\* C7: algorithm_identifier() maps ECDSA_SHA256 / ECDSA_SHA384 / ECDSA_SHA512
\* to "ECDSA" with the DER encoding of secp256r1 / secp384r1 / secp521r1,
\* EDDSA_25519 to "Ed25519" with empty parameters, all seven RSA codes to "RSA"
\* with NULL parameters, and every other code to the empty identifier.
C7_AlgorithmIdentifier ==
    op = "algorithm_identifier" =>
        ret = CASE m_code = ECDSA_SHA256 -> [oid |-> "ECDSA", parameters |-> Secp256r1_DER]
                [] m_code = ECDSA_SHA384 -> [oid |-> "ECDSA", parameters |-> Secp384r1_DER]
                [] m_code = ECDSA_SHA512 -> [oid |-> "ECDSA", parameters |-> Secp521r1_DER]
                [] m_code = EDDSA_25519 -> [oid |-> "Ed25519", parameters |-> <<>>]
                [] m_code \in RSA_PKCS1_Codes \cup RSA_PSS_Codes
                      -> [oid |-> "RSA", parameters |-> Null_DER]
                [] OTHER -> [oid |-> "", parameters |-> <<>>]

C7_Witness ==
    /\ op = "algorithm_identifier"
    /\ m_code = ECDSA_SHA384
    /\ ret.oid = "ECDSA"
    /\ ret.parameters = Secp384r1_DER

-----------------------------------------------------------------------------
(* C8 *)

\* C8: format() returns IEEE_1363 for every code whose algorithm_name() is
\* "RSA", DER_SEQUENCE for every code whose algorithm_name() is "ECDSA",
\* "Ed25519", "Ed448" or "DSA", and the empty optional exactly for the codes
\* whose algorithm_name() is "Unknown algorithm".
C8_FormatFollowsAlgorithm ==
    op = "format" =>
        /\ (algorithm_name(m_code) = "RSA" => ret = "IEEE_1363")
        /\ (algorithm_name(m_code) \in {"ECDSA", "Ed25519", "Ed448", "DSA"} =>
              ret = "DER_SEQUENCE")
        /\ ((ret = "nullopt") <=> (algorithm_name(m_code) = "Unknown algorithm"))
        /\ (m_code \in RSA_PKCS1_Codes \cup RSA_PSS_Codes => ret = "IEEE_1363")
        /\ (m_code \in ECDSA_Codes \cup DSA_Codes \cup {EDDSA_25519, EDDSA_448} =>
              ret = "DER_SEQUENCE")

C8_Witness ==
    /\ op = "format"
    /\ m_code = DSA_SHA256
    /\ ret = "DER_SEQUENCE"

-----------------------------------------------------------------------------
(* C9 *)

\* C9: for every code that is not one of the 17 recognized ones (NONE
\* included) every descriptor returns its "unknown" result: to_string() the
\* fallback prefix followed by the code in decimal, hash_function_name()
\* "Unknown hash function", padding_string() "Unknown padding",
\* algorithm_name() "Unknown algorithm", algorithm_identifier() the empty
\* identifier and format() the empty optional.
C9_UnknownCodeDescriptors ==
    m_code \notin RecognizedCodes =>
        /\ (op = "to_string" =>
              /\ IsFallbackName(ret)
              /\ LET digits == SubSeq(ret, Len(UnknownPrefix) + 1, Len(ret))
                 IN  IsDecimal(digits) /\ DecimalValue(digits) = m_code)
        /\ (op = "hash_function_name" => ret = "Unknown hash function")
        /\ (op = "padding_string" => ret = "Unknown padding")
        /\ (op = "algorithm_name" => ret = "Unknown algorithm")
        /\ (op = "algorithm_identifier" => ret = [oid |-> "", parameters |-> <<>>])
        /\ (op = "format" => ret = "nullopt")

C9_Witness ==
    /\ op = "to_string"
    /\ m_code = UINT16_MOD - 1
    /\ ret = "Unknown signature scheme: 65535"

-----------------------------------------------------------------------------
(* C10 *)

\* the nine offered schemes
NineSchemes ==
    << RSA_PSS_SHA384, RSA_PSS_SHA256, RSA_PSS_SHA512,
       RSA_PKCS1_SHA384, RSA_PKCS1_SHA512, RSA_PKCS1_SHA256,
       ECDSA_SHA384, ECDSA_SHA512, ECDSA_SHA256 >>

C10_State ==
    /\ n_init <= 1
    /\ (guard = "done" => n_init = 1 /\ all_schemes = NineSchemes)
    /\ \A t \in Threads :
          /\ (pc[t] \in {"has_ref", "returned"} =>
                guard = "done" /\ all_schemes = NineSchemes)
          /\ (pc[t] = "returned" /\ t_op[t] = "all_available_schemes" =>
                t_ret[t] = NineSchemes)
          /\ (pc[t] = "returned" /\ t_op[t] = "is_available" =>
                t_ret[t] = (t_code[t] \in Range(NineSchemes)))

\* C10: under any interleaving of threads calling all_available_schemes() and
\* is_available(), the static vector is initialized exactly once, no thread
\* holds a reference to it before it is complete, every call returns the same
\* nine-element sequence, and once initialized the vector never changes.
C10_InitializedOnceThenFixed ==
    /\ []C10_State
    /\ [][guard = "done" => guard' = "done" /\ all_schemes' = all_schemes]_vars

C10_Witness ==
    /\ \A t \in Threads : pc[t] = "returned"
    /\ t_op[1] = "all_available_schemes"
    /\ t_ret[1] = NineSchemes
    /\ t_op[2] = "is_available"
    /\ t_code[2] = ECDSA_SHA256
    /\ t_ret[2] = TRUE

====
